---- MODULE Spec2Model ----
(***************************************************************************)
(* tmpfiles-audit: a read-only checker of the symlink ("L") declarations   *)
(* of /usr/lib/tmpfiles.d/*.conf.  The repository holds the same script in *)
(* two behaviours: the older one (src/unnamed/part_000, identical in code  *)
(* to src/main.go lines 1-230) and the newest one (src/main.go lines       *)
(* 232-556), which also handles L? and L+ and resolves relative targets.   *)
(*                                                                         *)
(* A Go string is modelled as the sequence of its characters (each a       *)
(* one-character string), so that prefix tests, trimming, path cleaning    *)
(* and the line regular expression are computed, not assumed.              *)
(***************************************************************************)
EXTENDS Integers, Sequences, FiniteSets, TLC

VARIABLES
    rev,          \* which revision runs: "old" or "new"
    fs,           \* the filesystem: [entries, unreadable]
    pc,           \* position of main
    exitCode,     \* main's exitCode
    linkedDirs,   \* main's linkedDirs: directory -> set of linked base names
    ignoredFiles, \* the map loadIgnoreFiles returned (as a set of paths)
    stdout,       \* the messages printed so far (order and repeats abstracted)
    statted,      \* the paths os.Stat has been called on
    seen,         \* history: the lines the scanner has delivered from config files
    lastLine,     \* history: the line delivered by the latest scan step
    ignEnv,       \* history: the ignore files found by the glob in loadIgnoreFiles
    events        \* history: environment failures met ("glob", "open")

vars == <<rev, fs, pc, exitCode, linkedDirs, ignoredFiles, stdout, statted,
          seen, lastLine, ignEnv, events>>

(***************************************************************************)
(* Bound of the model: the number of different lines the config files of   *)
(* one run hold (a line may be scanned any number of times, in any number  *)
(* of files).                                                              *)
(***************************************************************************)
MaxLines == 2

(***************************************************************************)
(* Character classes: the blanks of unicode.IsSpace and of the regexp      *)
(* class for white space (on the model's alphabet), the characters of the  *)
(* line grammar, the path separator and the two quote characters.          *)
(***************************************************************************)
IsSpace(c) == c \in {" ", "\t"}

ClassHas(cls, c) ==
    CASE cls = "L"      -> c = "L"
      [] cls = "mod"    -> c \in {"?", "+"}
      [] cls = "ws"     -> IsSpace(c)
      [] cls = "nws"    -> ~IsSpace(c)
      [] cls = "slash"  -> c = "/"
      [] cls = "nslash" -> c # "/"
      [] cls = "dquote" -> c = "\""
      [] cls = "squote" -> c = "'"

\* the number of characters of the class that s holds from position pos on
RECURSIVE ClassRun(_, _, _)
ClassRun(s, pos, cls) ==
    IF pos > Len(s) \/ ~ClassHas(cls, s[pos]) THEN 0
    ELSE 1 + ClassRun(s, pos + 1, cls)

\* the number of characters of the class that s holds from position pos back
RECURSIVE BackRun(_, _, _)
BackRun(s, pos, cls) ==
    IF pos < 1 \/ ~ClassHas(cls, s[pos]) THEN 0
    ELSE 1 + BackRun(s, pos - 1, cls)

(***************************************************************************)
(* Go's strings package, on character sequences.                           *)
(***************************************************************************)
HasPrefix(s, p) == Len(s) >= Len(p) /\ SubSeq(s, 1, Len(p)) = p

TrimPrefix(s, p) == IF HasPrefix(s, p) THEN SubSeq(s, Len(p) + 1, Len(s)) ELSE s

Contains(s, sub) ==
    \E i \in 1..(Len(s) + 1) :
        i + Len(sub) - 1 <= Len(s) /\ SubSeq(s, i, i + Len(sub) - 1) = sub

\* s without its leading and trailing characters of the class
TrimClass(s, cls) ==
    SubSeq(s, ClassRun(s, 1, cls) + 1, Len(s) - BackRun(s, Len(s), cls))

TrimSpace(s) == TrimClass(s, "ws")

\* the fields of s from position pos on: FieldAt takes the field that starts
\* at start and ends before stop
RECURSIVE FieldsFrom(_, _), FieldStart(_, _), FieldAt(_, _, _)
FieldsFrom(s, pos) == FieldStart(s, pos + ClassRun(s, pos, "ws"))
FieldStart(s, start) ==
    IF start > Len(s) THEN <<>>
    ELSE FieldAt(s, start, start + ClassRun(s, start, "nws"))
FieldAt(s, start, stop) == <<SubSeq(s, start, stop - 1)>> \o FieldsFrom(s, stop)

Fields(s) == FieldsFrom(s, 1)

cleanQuotes(s) == TrimClass(TrimClass(TrimSpace(s), "dquote"), "squote")

(***************************************************************************)
(* Go's path/filepath package (Unix), on character sequences.              *)
(***************************************************************************)
\* the elements of s from position pos on; stop is the position of the
\* next separator, or Len(s) + 1
RECURSIVE SplitFrom(_, _), SplitAt(_, _, _)
SplitFrom(s, pos) == SplitAt(s, pos, pos + ClassRun(s, pos, "nslash"))
SplitAt(s, pos, stop) ==
    IF stop > Len(s) THEN <<SubSeq(s, pos, Len(s))>>
    ELSE <<SubSeq(s, pos, stop - 1)>> \o SplitFrom(s, stop + 1)

\* the elements of s between its separators
SplitSlash(s) == SplitFrom(s, 1)

RECURSIVE JoinSlash(_)
JoinSlash(segs) ==
    IF segs = <<>> THEN <<>>
    ELSE IF Len(segs) = 1 THEN segs[1]
    ELSE segs[1] \o <<"/">> \o JoinSlash(Tail(segs))

IsAbs(p) == HasPrefix(p, <<"/">>)

\* the elements Clean keeps, left to right: "" and "." dropped, ".." cancels
\* the element before it, and is dropped at the root
CleanPush(stack, e, rooted) ==
    IF e = <<>> \/ e = <<".">> THEN stack
    ELSE IF e # <<".", ".">> THEN Append(stack, e)
    ELSE IF stack # <<>> /\ stack[Len(stack)] # <<".", ".">>
    THEN SubSeq(stack, 1, Len(stack) - 1)
    ELSE IF rooted THEN stack
    ELSE Append(stack, e)

RECURSIVE CleanStack(_, _, _)
CleanStack(segs, stack, rooted) ==
    IF segs = <<>> THEN stack
    ELSE CleanStack(Tail(segs), CleanPush(stack, Head(segs), rooted), rooted)

CleanJoin(kept, rooted) ==
    IF rooted THEN <<"/">> \o JoinSlash(kept)
    ELSE IF kept = <<>> THEN <<".">>
    ELSE JoinSlash(kept)

Clean(p) == CleanJoin(CleanStack(SplitSlash(p), <<>>, IsAbs(p)), IsAbs(p))

\* the last element of p, which ends at position last
LastElement(p, last) ==
    IF last = 0 THEN <<"/">>
    ELSE SubSeq(p, last - BackRun(p, last, "nslash") + 1, last)

\* the last element of p, trailing separators dropped
Base(p) ==
    IF p = <<>> THEN <<".">>
    ELSE LastElement(p, Len(p) - BackRun(p, Len(p), "slash"))

\* all but the last element of p, cleaned
Dir(p) == Clean(SubSeq(p, 1, Len(p) - BackRun(p, Len(p), "nslash")))

\* filepath.Join of two elements: the non-empty ones, separated, cleaned
Join(a, b) ==
    IF a = <<>> /\ b = <<>> THEN <<>>
    ELSE Clean(IF a = <<>> THEN b
               ELSE IF b = <<>> THEN a
               ELSE a \o <<"/">> \o b)

(***************************************************************************)
(* String constants of the source.                                         *)
(***************************************************************************)
\* "/"
sSlash == <<"/">>
\* "."
sDot == <<".">>
\* ".."
sDotDot == <<".",".">>
\* "-"
sDash == <<"-">>
\* "#"
sHash == <<"#">>
\* "L"
sL == <<"L">>
\* "L?"
sLOpt == <<"L","?">>
\* "L+"
sLForce == <<"L","+">>
\* "etc"
sEtc == <<"e","t","c">>
\* "var"
sVar == <<"v","a","r">>
\* "/etc/"
sEtcSlash == <<"/","e","t","c","/">>
\* "/var/"
sVarSlash == <<"/","v","a","r","/">>
\* "/usr/share/factory"
sFactory ==
    <<"/","u","s","r","/","s","h","a","r","e","/","f","a","c","t","o","r",
      "y">>
\* "/usr/share/factory/etc/"
sFactoryEtc ==
    <<"/","u","s","r","/","s","h","a","r","e","/","f","a","c","t","o","r",
      "y","/","e","t","c","/">>
\* "/usr/share/factory/var/"
sFactoryVar ==
    <<"/","u","s","r","/","s","h","a","r","e","/","f","a","c","t","o","r",
      "y","/","v","a","r","/">>
\* "/.git"
sDotGit == <<"/",".","g","i","t">>
\* "/etc"
dEtc == <<"/","e","t","c">>
\* "/var"
dVar == <<"/","v","a","r">>
\* "/usr"
dUsr == <<"/","u","s","r">>
\* "/bin"
dBin == <<"/","b","i","n">>
\* "/sbin"
dSbin == <<"/","s","b","i","n">>
\* "/lib"
dLib == <<"/","l","i","b">>
\* "/lib64"
dLib64 == <<"/","l","i","b","6","4">>
\* "/proc"
dProc == <<"/","p","r","o","c">>
\* "/run"
dRun == <<"/","r","u","n">>

(***************************************************************************)
(* The line grammar: regexp.MustCompile of lineRegex, as a sequence of     *)
(* greedy items matched with backtracking (leftmost-first, as Go's regexp  *)
(* chooses submatches).  The trailing group, any characters up to the end  *)
(* of the line, takes the rest of the line.                                *)
(***************************************************************************)
One(cls)  == [cls |-> cls, min |-> 1, star |-> FALSE]
Plus(cls) == [cls |-> cls, min |-> 1, star |-> TRUE]
Star(cls) == [cls |-> cls, min |-> 0, star |-> TRUE]

\* the three placeholder fields, each a possibly empty run of non-blanks
\* between runs of blanks
regexTail ==
    <<Plus("ws"), Star("nws"), Plus("ws"), Star("nws"), Plus("ws"), Star("nws"),
      Plus("ws")>>

\* lineRegex of the older revision: L, blanks, the path (group 1), the
\* placeholders, then the rest (group 2)
lineRegexOld == <<One("L"), Plus("ws"), Plus("nws")>> \o regexTail

\* lineRegex of the newest revision: L, any run of ? and +, then as before
lineRegexNew == <<One("L"), Star("mod"), Plus("ws"), Plus("nws")>> \o regexTail

NoMatch == [ok |-> FALSE, ends |-> <<>>]

\* MatchFrom matches the items k.. of pat at position pos: item k takes the
\* longest run it can (MatchRun), then ever shorter ones (TryLen) until the
\* rest of the pattern matches (Matched).  ends[j] is the position after the
\* j-th of the items matched.
RECURSIVE MatchFrom(_, _, _, _), MatchRun(_, _, _, _, _), TryLen(_, _, _, _, _),
          Matched(_, _, _, _, _, _)
MatchFrom(s, pos, pat, k) ==
    IF k > Len(pat) THEN [ok |-> TRUE, ends |-> <<>>]
    ELSE MatchRun(s, pos, pat, k, ClassRun(s, pos, pat[k].cls))
MatchRun(s, pos, pat, k, run) ==
    IF run < pat[k].min THEN NoMatch
    ELSE TryLen(s, pos, pat, k, IF pat[k].star THEN run ELSE pat[k].min)
TryLen(s, pos, pat, k, n) ==
    Matched(s, pos, pat, k, n, MatchFrom(s, pos + n, pat, k + 1))
Matched(s, pos, pat, k, n, r) ==
    IF r.ok THEN [ok |-> TRUE, ends |-> <<pos + n>> \o r.ends]
    ELSE IF n > pat[k].min THEN TryLen(s, pos, pat, k, n - 1)
    ELSE NoMatch

\* the submatches of a match r: group 1 is item g of pat, group 2 the rest
Submatches(pat, g, line, r) ==
    IF ~r.ok THEN [ok |-> FALSE, path |-> <<>>, rest |-> <<>>]
    ELSE [ok   |-> TRUE,
          path |-> SubSeq(line, r.ends[g - 1], r.ends[g] - 1),
          rest |-> SubSeq(line, r.ends[Len(pat)], Len(line))]

\* lineRegex.FindStringSubmatch(line)
FindStringSubmatch(pat, g, line) ==
    Submatches(pat, g, line, MatchFrom(line, 1, pat, 1))

MatchOld(line) == FindStringSubmatch(lineRegexOld, 3, line)
MatchNew(line) == FindStringSubmatch(lineRegexNew, 4, line)

(***************************************************************************)
(* The filesystem the process reads.  An entry is [path, parent, name,     *)
(* kind] with a cleaned absolute path, the directory holding it and its    *)
(* name there; fs.unreadable are directories os.ReadDir fails on.  The     *)
(* modelled filesystems hold no symbolic links, so a lookup walks the path *)
(* element by element as the kernel does.                                  *)
(***************************************************************************)
\* the working directory of the process
Cwd == sSlash

\* the kind of the one entry among hits, or "none"
KindIn(hits) ==
    IF hits = {} THEN "none" ELSE (CHOOSE e \in hits : TRUE).kind

KindOf(p) == KindIn({e \in fs.entries : e.path = p})

\* one element of a path, from the directory cur
WalkStep(cur, e) ==
    IF e = <<>> \/ e = sDot THEN cur
    ELSE IF e = sDotDot THEN Dir(cur)
    ELSE IF cur = sSlash THEN cur \o e
    ELSE cur \o sSlash \o e

\* Walk follows the elements segs from cur, whose kind is kind
RECURSIVE Walk(_, _), WalkAt(_, _, _)
Walk(segs, cur) == WalkAt(segs, cur, KindOf(cur))
WalkAt(segs, cur, kind) ==
    IF kind = "none" THEN [ok |-> FALSE, path |-> cur]
    ELSE IF segs = <<>> THEN [ok |-> TRUE, path |-> cur]
    ELSE IF kind # "dir" THEN [ok |-> FALSE, path |-> cur]
    ELSE Walk(Tail(segs), WalkStep(cur, Head(segs)))

Lookup(p) ==
    IF p = <<>> THEN [ok |-> FALSE, path |-> p]
    ELSE Walk(SplitSlash(p), IF IsAbs(p) THEN sSlash ELSE Cwd)

\* os.Stat(p) returns a nil error
StatOk(p) == Lookup(p).ok

\* the listing of the directory a lookup r arrived at
Listing(r) ==
    IF ~r.ok \/ KindOf(r.path) # "dir" \/ r.path \in fs.unreadable
    THEN [err |-> TRUE, entries |-> {}]
    ELSE [err     |-> FALSE,
          entries |-> {[name |-> e.name, isDir |-> e.kind = "dir"] :
                       e \in {x \in fs.entries :
                                x.path # sSlash /\ x.parent = r.path}}]

\* os.ReadDir(d): the entries of d, or an error
ReadDir(d) == Listing(Lookup(d))

(***************************************************************************)
(* factoryTarget, isBaseDir, resolveTargetPath                             *)
(***************************************************************************)
factoryTarget(path) ==
    IF Base(path) = sEtc \/ HasPrefix(path, sEtcSlash)
    THEN sFactoryEtc \o TrimPrefix(path, sEtcSlash)
    ELSE IF Base(path) = sVar \/ HasPrefix(path, sVarSlash)
    THEN sFactoryVar \o TrimPrefix(path, sVarSlash)
    ELSE sFactory \o path

\* the list of isBaseDir without its last entry
baseDirsWithoutRun == {dEtc, dVar, dUsr, dBin, dSbin, dLib, dLib64, dProc}

baseDirsOld == {dEtc, dVar, dUsr, dBin, dSbin, dLib, dLib64}
baseDirsNew == {dEtc, dVar, dUsr, dBin, dSbin, dLib, dLib64, dProc, dRun}

isBaseDirOld(dir) == dir \in baseDirsOld
isBaseDirNew(dir) == dir \in baseDirsNew

resolveTargetPath(symlinkPath, target) ==
    IF IsAbs(target) THEN target
    ELSE Clean(Join(Dir(symlinkPath), target))

\* linkedDirs[dir][name] = true, creating linkedDirs[dir] when absent
MapAdd(ld, dir, name) ==
    IF dir \in DOMAIN ld THEN [ld EXCEPT ![dir] = @ \cup {name}]
    ELSE ld @@ (dir :> {name})

Msg(m, a, b) == [msg |-> m, a |-> a, b |-> b]

\* a faulty processLine that acts on the recreate note: it replaces the
\* symlink, so the filesystem gains an entry
OutcomeRecreating(err, ld, out, stats) ==
    [err |-> err, linkedDirs |-> ld, out |-> out, stats |-> stats,
     fs  |-> IF Msg("RecreateNote", <<>>, <<>>) \in out
             THEN [fs EXCEPT !.entries = @ \cup
                      {[path |-> <<"/", "n">>, parent |-> <<"/">>,
                        name |-> <<"n">>, kind |-> "symlink"]}]
             ELSE fs]

\* what a call of processLine leaves behind: the returned error, the map,
\* the lines printed, the paths given to os.Stat, and the filesystem
Outcome(err, ld, out, stats) ==
    [err |-> err, linkedDirs |-> ld, out |-> out, stats |-> stats, fs |-> fs]

(***************************************************************************)
(* processLine, older revision (src/unnamed/part_000 lines 50-88).  The    *)
(* function is split where it branches: the values it has computed so far  *)
(* are the parameters of the next part.                                    *)
(***************************************************************************)
\* the branch for an empty or "-" target, given whether os.Stat(ft) succeeded
factoryCaseOld(path, ft, exists, ld) ==
    IF exists
    THEN Outcome(FALSE, ld,
                 {Msg("FactoryDefault", path, ft), Msg("FactoryExists", ft, <<>>)},
                 {ft})
    ELSE Outcome(TRUE, ld,
                 {Msg("FactoryDefault", path, ft), Msg("FactoryMissing", ft, <<>>)},
                 {ft})

\* the branch for an explicit target, given whether os.Stat(target) succeeded
explicitCaseOld(path, target, exists, dir, ld) ==
    IF exists
    THEN Outcome(FALSE,
                 IF ~isBaseDirOld(dir) THEN MapAdd(ld, dir, Base(target)) ELSE ld,
                 {Msg("Link", path, target), Msg("TargetExists", target, <<>>)},
                 {target})
    ELSE Outcome(TRUE, ld,
                 {Msg("Link", path, target), Msg("TargetMissing", target, <<>>)},
                 {target})

checkTargetOld(path, target, ld) ==
    IF target = <<>> \/ target = sDash
    THEN factoryCaseOld(path, factoryTarget(path), StatOk(factoryTarget(path)), ld)
    ELSE explicitCaseOld(path, target, StatOk(target), Dir(target), ld)

matchedOld(m, line, ld) ==
    IF ~m.ok THEN Outcome(FALSE, ld, {}, {})
    ELSE checkTargetOld(m.path, cleanQuotes(m.rest), ld)

processLineOld(line, ld) == matchedOld(MatchOld(line), line, ld)

(***************************************************************************)
(* processLine, newest revision (src/main.go lines 295-383), split in the  *)
(* same way.                                                               *)
(***************************************************************************)
\* prefix: line[:1], or line[:2] when the second character is ? or +
prefixOf(line) ==
    IF Len(line) > 1 /\ line[2] \in {"?", "+"}
    THEN SubSeq(line, 1, 2) ELSE SubSeq(line, 1, 1)

\* the note printed at the end when recreate is set
recreateNote(prefix) ==
    IF prefix = sLForce THEN {Msg("RecreateNote", <<>>, <<>>)} ELSE {}

\* target: the last of strings.Fields(targetField), unquoted, or ""
lastField(fields) ==
    IF Len(fields) > 0 THEN cleanQuotes(fields[Len(fields)]) ELSE <<>>

factoryCaseNew(prefix, path, ft, exists, dir, ld) ==
    IF ~exists /\ prefix # sLOpt
    THEN Outcome(TRUE, ld,
                 {Msg("FactoryDefault", path, ft), Msg("FactoryMissing", ft, <<>>)},
                 {ft})
    ELSE Outcome(FALSE,
                 IF ~isBaseDirNew(dir) THEN MapAdd(ld, dir, Base(ft)) ELSE ld,
                 {Msg("FactoryDefault", path, ft),
                  IF exists THEN Msg("FactoryExists", ft, <<>>)
                  ELSE Msg("FactoryMissingOptional", ft, <<>>)}
                    \cup recreateNote(prefix),
                 {ft})

\* the lines printed before os.Stat(resolvedTarget)
shownLink(path, target, resolvedTarget) ==
    {Msg("Link", path, target)} \cup
    (IF resolvedTarget # target
     THEN {Msg("Resolved", resolvedTarget, <<>>)} ELSE {})

explicitCaseNew(prefix, resolvedTarget, exists, dir, shown, ld) ==
    IF exists
    THEN Outcome(FALSE,
                 IF ~isBaseDirNew(dir)
                 THEN MapAdd(ld, dir, Base(resolvedTarget)) ELSE ld,
                 shown \cup {Msg("TargetExists", resolvedTarget, <<>>)}
                   \cup recreateNote(prefix),
                 {resolvedTarget})
    ELSE IF prefix = sLOpt
    THEN Outcome(FALSE, ld,
                 shown \cup {Msg("TargetMissingOptional", resolvedTarget, <<>>)}
                   \cup recreateNote(prefix),
                 {resolvedTarget})
    ELSE Outcome(TRUE, ld,
                 shown \cup {Msg("TargetMissing", resolvedTarget, <<>>)},
                 {resolvedTarget})

resolvedCaseNew(prefix, path, target, resolvedTarget, ld) ==
    explicitCaseNew(prefix, resolvedTarget, StatOk(resolvedTarget),
                    Dir(resolvedTarget),
                    shownLink(path, target, resolvedTarget), ld)

factoryDefaultNew(prefix, path, ft, ld) ==
    factoryCaseNew(prefix, path, ft, StatOk(ft), Dir(ft), ld)

checkTargetNew(prefix, path, target, ld) ==
    IF target = <<>> \/ target = sDash
    THEN factoryDefaultNew(prefix, path, factoryTarget(path), ld)
    ELSE resolvedCaseNew(prefix, path, target, resolveTargetPath(path, target), ld)

matchedNew(m, line, ld) ==
    IF ~m.ok THEN Outcome(FALSE, ld, {}, {})
    ELSE checkTargetNew(prefixOf(line), m.path, lastField(Fields(m.rest)), ld)

processLineNew(line, ld) ==
    IF ~HasPrefix(line, sL) THEN Outcome(FALSE, ld, {}, {})
    ELSE matchedNew(MatchNew(line), line, ld)

(***************************************************************************)
(* loadIgnoreFiles, checkDirectoryCompleteness, printSummary               *)
(***************************************************************************)
\* the rule an ignore-file line gives, after strings.TrimSpace
IgnoreRule(line) ==
    IF line = <<>> \/ HasPrefix(line, sHash) THEN {} ELSE {line}

\* the ignore rules of one opened ignore file
IgnoreRules(lines) ==
    UNION {IgnoreRule(TrimSpace(lines[i])) : i \in 1..Len(lines)}

\* files: what the glob of /usr/share/tmpfiles.d/*.ignore found, each file
\* [ok, lines] with ok = FALSE when os.Open fails
RECURSIVE loadIgnoreFiles(_)
loadIgnoreFiles(files) ==
    IF files = <<>> THEN {}
    ELSE (IF Head(files).ok THEN IgnoreRules(Head(files).lines) ELSE {})
             \cup loadIgnoreFiles(Tail(files))

\* a faulty completeness check that takes every file for a linked one
ClassifiedAllLinked(dir, rd, linkedFiles, ign) ==
    [err   |-> rd.err,
     files |-> {[name    |-> e.name,
                 ignored |-> Join(dir, e.name) \in ign,
                 linked  |-> TRUE] :
                e \in {x \in rd.entries : ~x.isDir}}]

\* the entries of a listing that are not directories, each with the path
\* filepath.Join(dir, entry.Name()) and whether that path is ignored and
\* whether the name is linked
Classified(dir, rd, linkedFiles, ign) ==
    [err   |-> rd.err,
     files |-> {[name    |-> e.name,
                 ignored |-> Join(dir, e.name) \in ign,
                 linked  |-> e.name \in linkedFiles] :
                e \in {x \in rd.entries : ~x.isDir}}]

\* the directory as both loops over linkedDirs see it
DirView(dir, linkedFiles, ign) == Classified(dir, ReadDir(dir), linkedFiles, ign)

\* the names the loops append to missing
MissingOf(view) ==
    {f.name : f \in {x \in view.files : ~x.ignored /\ ~x.linked}}

skipDirOld(dir) == FALSE
skipDirNew(dir) == Contains(dir, sDotGit) \/ dir = sDot \/ dir = sDotDot

\* the views of the directories the loop does not skip
ViewsOld(ld, ign) ==
    [dir \in {d \in DOMAIN ld : ~skipDirOld(d)} |-> DirView(dir, ld[dir], ign)]
ViewsNew(ld, ign) ==
    [dir \in {d \in DOMAIN ld : ~skipDirNew(d)} |-> DirView(dir, ld[dir], ign)]

\* checkDirectoryCompleteness on the views: an unreadable directory is
\* passed over, a directory with missing names is reported
completenessOf(views) ==
    [err |-> \E dir \in DOMAIN views :
                ~views[dir].err /\ MissingOf(views[dir]) # {},
     out |-> UNION {IF views[dir].err \/ MissingOf(views[dir]) = {} THEN {}
                    ELSE {Msg("Incomplete", dir, <<>>)} \cup
                         {Msg("MissingFile", dir, n) : n \in MissingOf(views[dir])} :
                    dir \in DOMAIN views},
     fs  |-> fs]

checkDirectoryCompletenessOld(ld, ign) == completenessOf(ViewsOld(ld, ign))
checkDirectoryCompletenessNew(ld, ign) == completenessOf(ViewsNew(ld, ign))

\* what printSummary prints for one directory
SummaryOf(dir, view) ==
    IF view.err THEN {Msg("CannotRead", dir, <<>>)}
    ELSE {Msg("Directory", dir, <<>>)}
         \cup {Msg(IF f.ignored THEN "SummaryIgnored"
                   ELSE IF f.linked THEN "SummaryLinked"
                   ELSE "SummaryMissing", dir, f.name) : f \in view.files}
         \cup (IF MissingOf(view) = {} THEN {Msg("AllLinked", dir, <<>>)} ELSE {})

summaryOf(views) ==
    [out |-> {Msg("SummaryHeader", <<>>, <<>>)} \cup
             UNION {SummaryOf(dir, views[dir]) : dir \in DOMAIN views},
     fs  |-> fs]

printSummaryOld(ld, ign) == summaryOf(ViewsOld(ld, ign))
printSummaryNew(ld, ign) == summaryOf(ViewsNew(ld, ign))

(***************************************************************************)
(* The body of main's scanner loop, for one line                           *)
(***************************************************************************)
\* a faulty loop body that counts a skipped line as a failure
SkippedFailing(ld, code) ==
    [linkedDirs |-> ld, exitCode |-> 1, out |-> {}, stats |-> {}, fs |-> fs]

\* a faulty loop body that drops the error processLine returned
ProcessedForgetting(r, code) ==
    [linkedDirs |-> r.linkedDirs, exitCode |-> code,
     out |-> r.out, stats |-> r.stats, fs |-> r.fs]

Skipped(ld, code) ==
    [linkedDirs |-> ld, exitCode |-> code, out |-> {}, stats |-> {}, fs |-> fs]

Processed(r, code) ==
    [linkedDirs |-> r.linkedDirs, exitCode |-> IF r.err THEN 1 ELSE code,
     out |-> r.out, stats |-> r.stats, fs |-> r.fs]

scanLineOld(line, ld, code) ==
    IF ~HasPrefix(line, sL) \/ HasPrefix(line, sLOpt) \/ HasPrefix(line, sLForce)
    THEN Skipped(ld, code)
    ELSE Processed(processLineOld(line, ld), code)

\* the loop body of the newest revision, after line = strings.TrimSpace(line)
trimmedLineNew(line, ld, code) ==
    IF line = <<>> \/ HasPrefix(line, sHash) THEN Skipped(ld, code)
    ELSE IF HasPrefix(line, sL)
    THEN Processed(processLineNew(line, ld), code)
    ELSE Skipped(ld, code)

scanLineNew(text, ld, code) == trimmedLineNew(TrimSpace(text), ld, code)

(***************************************************************************)
(* The inputs of the model: filesystems, config lines, ignore files.       *)
(***************************************************************************)
\* "/etc/a"
pEtcA == <<"/","e","t","c","/","a">>
\* "/etc/b"
pEtcB == <<"/","e","t","c","/","b">>
\* "/etc/d"
pEtcD == <<"/","e","t","c","/","d">>
\* "/etc/d/a"
pEtcDA == <<"/","e","t","c","/","d","/","a">>
\* "/s"
pS == <<"/","s">>
\* "/s/a"
pSA == <<"/","s","/","a">>
\* "/s/b"
pSB == <<"/","s","/","b">>
\* "/run/a"
pRunA == <<"/","r","u","n","/","a">>
\* "/g"
pG == <<"/","g">>
\* "/g/.git"
pGit == <<"/","g","/",".","g","i","t">>
\* "/g/.git/c"
pGitC == <<"/","g","/",".","g","i","t","/","c">>
\* "/g/.git/x"
pGitX == <<"/","g","/",".","g","i","t","/","x">>
\* "/usr/share"
pUsrShare == <<"/","u","s","r","/","s","h","a","r","e">>
\* "/usr/share/factory/etc"
pFacEtc ==
    <<"/","u","s","r","/","s","h","a","r","e","/","f","a","c","t","o","r",
      "y","/","e","t","c">>
\* "/usr/share/factory/etc/d"
pFacEtcD ==
    <<"/","u","s","r","/","s","h","a","r","e","/","f","a","c","t","o","r",
      "y","/","e","t","c","/","d">>
\* "/usr/share/factory/etc/d/b"
pFacEtcDB ==
    <<"/","u","s","r","/","s","h","a","r","e","/","f","a","c","t","o","r",
      "y","/","e","t","c","/","d","/","b">>
\* "/usr/share/factory/var"
pFacVar ==
    <<"/","u","s","r","/","s","h","a","r","e","/","f","a","c","t","o","r",
      "y","/","v","a","r">>
\* "/usr/share/factory/var/o"
pFacVarO ==
    <<"/","u","s","r","/","s","h","a","r","e","/","f","a","c","t","o","r",
      "y","/","v","a","r","/","o">>
\* "/usr/share/factory/var/o/var"
pFacVarOVar ==
    <<"/","u","s","r","/","s","h","a","r","e","/","f","a","c","t","o","r",
      "y","/","v","a","r","/","o","/","v","a","r">>
\* "L /l1 - - - "/s/a""
LnQuoted ==
    <<"L"," ","/","l","1"," ","-"," ","-"," ","-"," ","\"","/","s","/","a",
      "\"">>
\* "L /l2 - - - /s/b"
LnSB == <<"L"," ","/","l","2"," ","-"," ","-"," ","-"," ","/","s","/","b">>
\* "L /l3 - - - /etc/a"
LnBase ==
    <<"L"," ","/","l","3"," ","-"," ","-"," ","-"," ","/","e","t","c","/",
      "a">>
\* "L /etc/d/a - - - -"
LnFactory ==
    <<"L"," ","/","e","t","c","/","d","/","a"," ","-"," ","-"," ","-"," ",
      "-">>
\* "L? /etc/d/a - - - -"
LnOptFactory ==
    <<"L","?"," ","/","e","t","c","/","d","/","a"," ","-"," ","-"," ","-",
      " ","-">>
\* "L? /l4 - - - /s/m"
LnOptMissing ==
    <<"L","?"," ","/","l","4"," ","-"," ","-"," ","-"," ","/","s","/","m">>
\* "L+ /l5 - - - /s/m"
LnForceMissing ==
    <<"L","+"," ","/","l","5"," ","-"," ","-"," ","-"," ","/","s","/","m">>
\* "L+ /lc - - - /s/a"
LnForce ==
    <<"L","+"," ","/","l","c"," ","-"," ","-"," ","-"," ","/","s","/","a">>
\* "L /o/var - - - -"
LnVarName ==
    <<"L"," ","/","o","/","v","a","r"," ","-"," ","-"," ","-"," ","-">>
\* "d /l6 - - - /s/m"
LnOtherType ==
    <<"d"," ","/","l","6"," ","-"," ","-"," ","-"," ","/","s","/","m">>
\* "# L /l7 - - - /s/m"
LnComment ==
    <<"#"," ","L"," ","/","l","7"," ","-"," ","-"," ","-"," ","/","s","/",
      "m">>
\* ""
LnBlank == <<>>
\* "L /l8"
LnShort == <<"L"," ","/","l","8">>
\* " L /l9 - - - /s/m"
LnIndented ==
    <<" ","L"," ","/","l","9"," ","-"," ","-"," ","-"," ","/","s","/","m">>
\* "L /la - - - /run/a"
LnRun ==
    <<"L"," ","/","l","a"," ","-"," ","-"," ","-"," ","/","r","u","n","/",
      "a">>
\* "L /etc/d/l - - - ../d/a"
LnRelative ==
    <<"L"," ","/","e","t","c","/","d","/","l"," ","-"," ","-"," ","-"," ",
      ".",".","/","d","/","a">>
\* "L /lb - - - /g/.git/c"
LnGit ==
    <<"L"," ","/","l","b"," ","-"," ","-"," ","-"," ","/","g","/",".","g",
      "i","t","/","c">>
\* "# keep"
IgnComment == <<"#"," ","k","e","e","p">>
\* " /s/b "
IgnSB == <<" ","/","s","/","b"," ">>

Entry(p, kind) == [path |-> p, parent |-> Dir(p), name |-> Base(p), kind |-> kind]
D(p) == Entry(p, "dir")
F(p) == Entry(p, "file")

\* present in every modelled filesystem; /etc/b and /g/.git/x are files no
\* config line declares
FsBase ==
    {D(sSlash), D(dEtc), D(pEtcD), D(pS), D(dRun), D(pG), D(pGit), D(dUsr),
     D(pUsrShare), D(sFactory), D(pFacEtc), D(pFacEtcD),
     F(pEtcA), F(pEtcB), F(pEtcDA), F(pSA), F(dRun \o sSlash \o <<"a">>),
     F(pGitC), F(pGitX)}

\* /s/b, a file beside the missing factory default of /etc/d/a, and the
\* path factoryTarget computes for /o/var; /s/m does not exist
FsExtra ==
    {F(pSB), F(pFacEtcDB), D(pFacVar), D(pFacVarO), F(pFacVarOVar)}

\* the two modelled filesystems differ in whether /s can be listed
Filesystems ==
    {[entries |-> FsBase \cup FsExtra, unreadable |-> {}],
     [entries |-> FsBase \cup FsExtra, unreadable |-> {pS}]}

Catalogue ==
    {LnQuoted, LnSB, LnBase, LnFactory, LnOptFactory, LnOptMissing,
     LnForceMissing, LnForce, LnVarName, LnOtherType, LnComment, LnBlank,
     LnShort,     LnIndented, LnRun, LnRelative, LnGit}

IgnoreFile(ok) == [ok |-> ok, lines |-> <<IgnComment, LnBlank, IgnSB>>]

\* what the glob of the ignore files finds: nothing, or a file that cannot
\* be opened followed by one that can
IgnoreEnvs == {<<>>, <<IgnoreFile(FALSE), IgnoreFile(TRUE)>>}

(***************************************************************************)
(* main (src/main.go lines 513-556; src/unnamed/part_000 lines 215-255)    *)
(***************************************************************************)
NoDirs == [d \in {} |-> {}]

Init ==
    /\ rev \in {"old", "new"}
    /\ fs \in Filesystems
    /\ pc = "start"
    /\ exitCode = 0
    /\ linkedDirs = NoDirs
    /\ ignoredFiles = {}
    /\ stdout = {}
    /\ statted = {}
    /\ seen = {}
    /\ lastLine = <<>>
    /\ ignEnv = <<>>
    /\ events = {}

\* filepath.Glob returned an error: print it and os.Exit(1).  Glob reports
\* only a malformed pattern; the branch is modelled because main has it.
GlobFails ==
    /\ pc = "start"
    /\ pc' = "exited"
    /\ exitCode' = 1
    /\ stdout' = stdout \cup {Msg("ErrorFindingFiles", <<>>, <<>>)}
    /\ events' = events \cup {"glob"}
    /\ UNCHANGED <<rev, fs, linkedDirs, ignoredFiles, statted, seen, lastLine,
                   ignEnv>>

GlobOk ==
    /\ pc = "start"
    /\ pc' = "files"
    /\ UNCHANGED <<rev, fs, exitCode, linkedDirs, ignoredFiles, stdout, statted,
                   seen, lastLine, ignEnv, events>>

\* os.Open of the next config file fails
OpenFails ==
    /\ pc = "files"
    /\ exitCode' = 1
    /\ stdout' = stdout \cup {Msg("ErrorOpeningFile", <<>>, <<>>)}
    /\ events' = events \cup {"open"}
    /\ UNCHANGED <<rev, fs, pc, linkedDirs, ignoredFiles, statted, seen,
                   lastLine, ignEnv>>

OpenOk ==
    /\ pc = "files"
    /\ pc' = "scan"
    /\ UNCHANGED <<rev, fs, exitCode, linkedDirs, ignoredFiles, stdout, statted,
                   seen, lastLine, ignEnv, events>>

\* the loop body for the line the scanner delivers, by revision
scanLine(text) ==
    IF rev = "old" THEN scanLineOld(text, linkedDirs, exitCode)
    ELSE scanLineNew(text, linkedDirs, exitCode)

\* the state after the loop body left r
AfterLine(text, r) ==
    /\ linkedDirs' = r.linkedDirs
    /\ exitCode' = r.exitCode
    /\ stdout' = stdout \cup r.out
    /\ statted' = statted \cup r.stats
    /\ fs' = r.fs
    /\ seen' = seen \cup {text}
    /\ lastLine' = <<text>>

\* scanner.Scan() delivers a line
ScanLine ==
    /\ pc = "scan"
    /\ \E text \in {t \in Catalogue : t \in seen \/ Cardinality(seen) < MaxLines} :
         AfterLine(text, scanLine(text))
    /\ UNCHANGED <<rev, pc, ignoredFiles, ignEnv, events>>

\* scanner.Scan() returns false; f.Close()
EndOfFile ==
    /\ pc = "scan"
    /\ pc' = "files"
    /\ lastLine' = <<>>
    /\ UNCHANGED <<rev, fs, exitCode, linkedDirs, ignoredFiles, stdout, statted,
                   seen, ignEnv, events>>

\* the state after loadIgnoreFiles returned rules
AfterIgnore(files, rules) ==
    /\ ignEnv' = files
    /\ ignoredFiles' = rules
    /\ stdout' = stdout \cup {Msg("IgnoreRule", rule, <<>>) : rule \in rules}

\* the range over files ends; ignoredFiles := loadIgnoreFiles()
LoadIgnore ==
    /\ pc = "files"
    /\ pc' = "check"
    /\ \E files \in IgnoreEnvs : AfterIgnore(files, loadIgnoreFiles(files))
    /\ UNCHANGED <<rev, fs, exitCode, linkedDirs, statted, seen, lastLine,
                   events>>

checkDirectoryCompleteness ==
    IF rev = "old" THEN checkDirectoryCompletenessOld(linkedDirs, ignoredFiles)
    ELSE checkDirectoryCompletenessNew(linkedDirs, ignoredFiles)

AfterCheck(r) ==
    /\ exitCode' = IF r.err THEN 1 ELSE exitCode
    /\ stdout' = stdout \cup r.out
    /\ fs' = r.fs

CheckCompleteness ==
    /\ pc = "check"
    /\ pc' = "summary"
    /\ AfterCheck(checkDirectoryCompleteness)
    /\ UNCHANGED <<rev, linkedDirs, ignoredFiles, statted, seen, lastLine,
                   ignEnv, events>>

printSummary ==
    IF rev = "old" THEN printSummaryOld(linkedDirs, ignoredFiles)
    ELSE printSummaryNew(linkedDirs, ignoredFiles)

AfterSummary(r) ==
    /\ stdout' = stdout \cup r.out
    /\ fs' = r.fs

\* printSummary, then os.Exit(exitCode)
SummaryAndExit ==
    /\ pc = "summary"
    /\ pc' = "exited"
    /\ AfterSummary(printSummary)
    /\ UNCHANGED <<rev, exitCode, linkedDirs, ignoredFiles, statted, seen,
                   lastLine, ignEnv, events>>

Next ==
    \/ GlobFails
    \/ GlobOk
    \/ OpenFails
    \/ OpenOk
    \/ ScanLine
    \/ EndOfFile
    \/ LoadIgnore
    \/ CheckCompleteness
    \/ SummaryAndExit

Spec == Init /\ [][Next]_vars

(***************************************************************************)
(* The declarations of a run, read off the scanned lines.  Decl(l) is what *)
(* the revision in use takes the line l for: whether it is a declaration   *)
(* at all, its directive, the link path, the target written, and the path  *)
(* whose existence decides the line.                                       *)
(***************************************************************************)
IsDefault(target) == target = <<>> \/ target = sDash

DeclOf(m, prefix, target, checked) ==
    [ok |-> m.ok, prefix |-> prefix, path |-> m.path, target |-> target,
     default |-> IsDefault(target), checked |-> checked]

DeclOldOf(m, target) ==
    DeclOf(m, sL, target,
           IF IsDefault(target) THEN factoryTarget(m.path) ELSE target)

DeclNewOf(m, prefix, target) ==
    DeclOf(m, prefix, target,
           IF IsDefault(target) THEN factoryTarget(m.path)
           ELSE resolveTargetPath(m.path, target))

NoDecl ==
    [ok |-> FALSE, prefix |-> <<>>, path |-> <<>>, target |-> <<>>,
     default |-> FALSE, checked |-> <<>>]

DeclOldMatched(m) ==
    IF ~m.ok THEN NoDecl ELSE DeclOldOf(m, cleanQuotes(m.rest))

DeclOld(l) == DeclOldMatched(MatchOld(l))

DeclNewMatched(t, m) ==
    IF ~m.ok THEN NoDecl
    ELSE DeclNewOf(m, prefixOf(t), lastField(Fields(m.rest)))

DeclNew(t) == DeclNewMatched(t, MatchNew(t))

Decl(l) == IF rev = "old" THEN DeclOld(l) ELSE DeclNew(TrimSpace(l))

\* the declarations among the lines scanned so far
Decls == {d \in {Decl(l) : l \in seen} : d.ok}

Optional(d) == d.prefix = sLOpt
Missing(d)  == ~StatOk(d.checked)

\* the base directories of the revision in use
BaseDirs ==
    {dEtc, dVar, dUsr, dBin, dSbin, dLib, dLib64} \cup
    (IF rev = "new" THEN {dProc, dRun} ELSE {})

\* the declarations whose target enters the map of linked directories: an
\* explicit target that exists and, in the newest revision, a factory
\* default that exists or is optional; never one in a base directory
Tracks(d) ==
    /\ Dir(d.checked) \notin BaseDirs
    /\ IF d.default THEN rev = "new" /\ (~Missing(d) \/ Optional(d))
       ELSE ~Missing(d)

Tracked == {d \in Decls : Tracks(d)}

\* the paths the opened ignore files list
Listed ==
    UNION {{t \in {TrimSpace(ignEnv[i].lines[j]) :
                   j \in 1..Len(ignEnv[i].lines)} :
            t # <<>> /\ ~HasPrefix(t, sHash)} :
           i \in {k \in DOMAIN ignEnv : ignEnv[k].ok}}

\* the files of the directory dir that no ignore file lists and no tracked
\* declaration names
Undeclared(dir, among) ==
    {e \in fs.entries :
        /\ e.path # sSlash /\ e.kind # "dir" /\ e.parent = Lookup(dir).path
        /\ Join(dir, e.name) \notin Listed
        /\ ~\E d \in among : Dir(d.checked) = dir /\ Base(d.checked) = e.name}

Readable(dir) == KindOf(Lookup(dir).path) = "dir" /\ dir \notin fs.unreadable

\* the directories the completeness check looks into
Checked ==
    {dir \in {Dir(d.checked) : d \in Tracked} :
        /\ Readable(dir)
        /\ rev = "new" =>
             ~Contains(dir, sDotGit) /\ dir # sDot /\ dir # sDotDot}

(***************************************************************************)
(* C1.  Every plain L declaration resolves to an existing target in a run  *)
(* that exits 0: the explicit target, or for an empty or "-" target the    *)
(* factory default, which is /usr/share/factory/etc/X for /etc/X,          *)
(* /usr/share/factory/var/X for /var/X and /usr/share/factory followed by  *)
(* the path for any other path.                                            *)
(***************************************************************************)
\* the factory default as the mapping is described
FactoryDefaultOf(path) ==
    IF HasPrefix(path, sEtcSlash) THEN sFactoryEtc \o TrimPrefix(path, sEtcSlash)
    ELSE IF HasPrefix(path, sVarSlash)
    THEN sFactoryVar \o TrimPrefix(path, sVarSlash)
    ELSE sFactory \o path

\* the target of a declaration: the factory default, or the explicit target
\* as the revision in use resolves it
TargetOf(d) == IF d.default THEN FactoryDefaultOf(d.path) ELSE d.checked

\* C1: a run that exits 0 has no plain L declaration whose target is missing
C1_ExitZeroMeansTargetsExist ==
    (pc = "exited" /\ exitCode = 0) =>
        \A d \in Decls : d.prefix = sL => StatOk(TargetOf(d))

(***************************************************************************)
(* C2.  Directory completeness.                                            *)
(***************************************************************************)
\* the declarations whose target was found to exist
Found == {d \in Decls : ~Missing(d)}

C3_ReadOnly == [][fs' = fs]_vars

\* a finished run of the newest revision that processed an L+ line and
\* printed the recreate note
C3_Witness ==
    /\ pc = "exited" /\ rev = "new"
    /\ LnForce \in seen
    /\ Msg("RecreateNote", <<>>, <<>>) \in stdout

(***************************************************************************)
(* C4.  Lines of other directive types are ignored.                        *)
(***************************************************************************)
\* the line does not begin with the directive L; the newest revision strips
\* the blanks around a line before it looks at the directive
NotSymlinkLine(l) ==
    IF rev = "old" THEN ~HasPrefix(l, sL) ELSE ~HasPrefix(TrimSpace(l), sL)

\* C4: scanning a line that does not begin with the directive L leaves the
\* map of linked directories and the exit code as they were, and gives no
\* path to os.Stat
C4_OtherLinesIgnored ==
    [][(pc = "scan" /\ pc' = "scan" /\ NotSymlinkLine(lastLine'[1])) =>
          /\ linkedDirs' = linkedDirs
          /\ exitCode' = exitCode
          /\ statted' = statted]_vars

\* a line of another directive type has just been scanned, after a
\* declaration that failed
C4_Witness ==
    /\ pc = "scan"
    /\ lastLine \in {<<LnOtherType>>, <<LnComment>>, <<LnBlank>>}
    /\ exitCode = 1

(***************************************************************************)
(* C5.  The exit code.                                                     *)
(***************************************************************************)
\* a failure: the glob of the config files failed, a config file could not
\* be opened, a declaration that is not optional has a missing target, or a
\* directory the completeness check looks into has an undeclared file
Failure ==
    \/ "glob" \in events
    \/ "open" \in events
    \/ \E d \in Decls : Missing(d) /\ ~Optional(d)
    \/ \E dir \in Checked : Undeclared(dir, Tracked) # {}

\* C5: the exit code is 0 or 1, and at exit it is nonzero exactly when a
\* failure occurred
C5_ExitCodeIffFailure ==
    /\ exitCode \in {0, 1}
    /\ pc = "exited" => (exitCode # 0 <=> Failure)

\* a run that exits 0 although an ignore file could not be opened, the
\* tracked directory /s could not be read, and an optional target is missing
C5_Witness ==
    /\ pc = "exited" /\ exitCode = 0
    /\ \E i \in DOMAIN ignEnv : ~ignEnv[i].ok
    /\ \E d \in Tracked : ~Readable(Dir(d.checked))
    /\ \E d \in Decls : Optional(d) /\ Missing(d)

(***************************************************************************)
(* C6.  Optional declarations, newest revision.                            *)
(***************************************************************************)
\* C6: in the newest revision a run in which nothing failed to be found or
\* opened and every declaration is an L? line with a missing target exits
\* 0, and a run with an L or L+ declaration with a missing target exits
\* nonzero
C6_OptionalMissingOnlyWarns ==
    (rev = "new" /\ pc = "exited") =>
        /\ (events = {} /\ \A d \in Decls : Optional(d) /\ Missing(d))
              => exitCode = 0
        /\ (\E d \in Decls : ~Optional(d) /\ Missing(d)) => exitCode # 0

(***************************************************************************)
(* C7.  factoryTarget.                                                     *)
(***************************************************************************)
\* C7: for the path of every declaration, factoryTarget gives
\* /usr/share/factory/etc/X for /etc/X, /usr/share/factory/var/X for /var/X
\* and /usr/share/factory followed by the path otherwise
C7_FactoryTargetMapping ==
    \A d \in Decls : factoryTarget(d.path) = FactoryDefaultOf(d.path)

(***************************************************************************)
(* C8.  Base directories.                                                  *)
(***************************************************************************)
\* the targets os.Stat found: the explicit ones and, in the newest
\* revision, the factory defaults
FoundTargets ==
    {m.a : m \in {x \in stdout :
        x.msg = "TargetExists" \/ (rev = "new" /\ x.msg = "FactoryExists")}}

====
